---- MODULE Spec2Model ----
(***************************************************************************)
(* Model of cmd/cbft/app_herder.go: the appHerder memory-admission         *)
(* controller.  One mutex (a.m) with one condition variable (a.waitCond)   *)
(* guards the tracked-index map, the running-query accumulator and the     *)
(* waiting counter.  Indexing writers block in onBatchExecuteStart while   *)
(* the quota test is true; queries are admitted or rejected at once.       *)
(***************************************************************************)
EXTENDS Integers, FiniteSets, Sequences, TLC

\* ------------------------------------------------------------------------
\* Bounds of the model
\* ------------------------------------------------------------------------

\* width of the model's unsigned machine word (uint64 in the source)
WordBits == 4
\* number of goroutines that call onBatchExecuteStart
NumWriters == 2
\* number of index handles (moss collections / scorch indexes)
NumHandles == 2
\* largest value an engine's size probe reports
MaxProbe == 4
\* number of query callers
NumQueries == 2

Mod == 2 ^ WordBits
Word == 0 .. (Mod - 1)

\* significant bits of the model's floating-point format (53 of 64 in float64):
\* narrower than the word, so that large words are not representable
MantBits == WordBits - 1
\* a ratio is the float k / RatioDen, written as its numerator k
RatioDen == 2 ^ (MantBits - 1)

Writers == 1 .. NumWriters
Handles == 1 .. NumHandles
Queries == 1 .. NumQueries

NoThread == 0

\* a moss collection opened without Options().LowerLevelUpdate (the first
\* moss handle, an odd number, above Handles)
Plain == NumHandles + 1 + (NumHandles % 2)
\* the collections and scorch instances that send events
Collections == Handles \cup {Plain}
NoQuery == -1

\* sizes handed to StartQuery: small ones, and one close to the top of the word
QuerySizes == {1, 3, Mod - 2}

\* constructor arguments tried: memQuota and the three ratios (numerators over
\* RatioDen): 1.0, 0.5, 0.5 and 1.0, 0.75, 0.75
Configs ==
  { [memQuota |-> Mod \div 2, appRatio |-> RatioDen,
     indexRatio |-> RatioDen \div 2, queryRatio |-> RatioDen \div 2],
    [memQuota |-> Mod \div 2, appRatio |-> RatioDen,
     indexRatio |-> RatioDen - 1, queryRatio |-> RatioDen - 1] }

VARIABLES
  memQuota, appQuota, indexQuota, queryQuota,  \* appHerder quota fields
  m,                 \* a.m: the writer holding the mutex across steps, or NoThread
  waiting,           \* a.waiting
  indexes,           \* a.indexes: handle -> size function
  runningQueryUsed,  \* a.runningQueryUsed
  pc,                \* position of each writer inside onBatchExecuteStart
  wokenBy,           \* which broadcast made a writer runnable again
  probe,             \* what the size function of each handle returns now
  running,           \* size each query caller was admitted with (NoQuery if none)
  base,              \* history: runningQueryUsed without the caller's own query
  ret,               \* error returned by the latest StartQuery call
  args,              \* history: the arguments newAppHerder was called with
  delivered          \* history: what became of the latest engine event

quotas == <<memQuota, appQuota, indexQuota, queryQuota, args>>
vars == <<memQuota, appQuota, indexQuota, queryQuota, args, m, waiting, indexes,
          runningQueryUsed, pc, wokenBy, probe, running, base, ret>>
\* the controller's state with the event history
allvars == <<vars, delivered>>

\* ------------------------------------------------------------------------
\* uint64 arithmetic (wraps modulo 2^WordBits)
\* ------------------------------------------------------------------------

Add(a, b) == (a + b) % Mod
Sub(a, b) == (a - b + Mod) % Mod

\* uint64(float64(x) * ratio), ratio = num/den
\* number of binary digits of n
RECURSIVE BitLen(_)
BitLen(n) == IF n = 0 THEN 0 ELSE 1 + BitLen(n \div 2)

\* n rounded to MantBits significant bits, to nearest, ties to the even mantissa
RoundToMant(n) ==
  IF BitLen(n) <= MantBits THEN n
  ELSE LET u == 2 ^ (BitLen(n) - MantBits)
           q == n \div u
           r == n % u
           up == (2 * r > u) \/ (2 * r = u /\ q % 2 = 1)
       IN (IF up THEN q + 1 ELSE q) * u

\* float64(x) of an unsigned word
Float64OfUint(x) == RoundToMant(x)

\* the float product f * (k / RatioDen), as its numerator over RatioDen
FloatMul(f, k) == RoundToMant(f * k)

\* what builds return for uint64(f) when f is 2^WordBits or more (the
\* conversion is implementation-specific there): zero, the top bit, all ones
OutOfRange == {0, Mod \div 2, Mod - 1}

\* uint64(f) of the float n / RatioDen: truncation, one of OutOfRange when it
\* does not fit the word
Uint64OfFloat(n) ==
  IF n \div RatioDen < Mod THEN {n \div RatioDen} ELSE OutOfRange

\* uint64(float64(x) * ratio): the values a build can produce
Scale(x, k) == Uint64OfFloat(FloatMul(Float64OfUint(x), k))

\* the size function the engine adapter passes for a handle
SizeFuncOf(c) == IF c % 2 = 1 THEN "mossSize" ELSE "scorchSize"

\* the engine a handle belongs to: moss.Collection or *scorch.Scorch
MossCollections == {c \in Collections : SizeFuncOf(c) = "mossSize"}
ScorchCollections == {c \in Collections : SizeFuncOf(c) = "scorchSize"}

\* event.Collection.Options().LowerLevelUpdate
LowerLevelUpdate(c) == IF c = Plain THEN "nil" ELSE "func"

\* event kinds of the two engines: the three each switch lists, and one it
\* does not list
MossKinds == {"EventKindClose", "EventKindBatchExecuteStart",
              "EventKindPersisterProgress", "EventKindMergerProgress"}
ScorchKinds == {"EventKindClose", "EventKindBatchIntroductionStart",
                "EventKindPersisterProgress", "EventKindMergerProgress"}

\* mossSize / scorchSize: the engine's current dirty-memory statistic
\* (mossSize yields 0 when Stats() fails; probe[c] is the value returned)
ApplySize(s, c) == probe[c]

RECURSIVE SumWrap(_, _)
SumWrap(S, ix) ==
  IF S = {} THEN 0
  ELSE LET c == CHOOSE x \in S : TRUE
       IN Add(ApplySize(ix[c], c), SumWrap(S \ {c}, ix))

indexingMemoryLOCKED == SumWrap(DOMAIN indexes, indexes)

overMemQuotaForIndexingLOCKED ==
  LET memUsed == indexingMemoryLOCKED
  IN IF memUsed > indexQuota THEN TRUE
     ELSE Add(memUsed, runningQueryUsed) > appQuota

\* ------------------------------------------------------------------------
\* Initial state: newAppHerder
\* ------------------------------------------------------------------------

newAppHerder(cfg) ==
  /\ args = cfg
  /\ memQuota = cfg.memQuota
  /\ appQuota \in Scale(memQuota, cfg.appRatio)
  /\ indexQuota \in Scale(appQuota, cfg.indexRatio)
  /\ queryQuota \in Scale(appQuota, cfg.queryRatio)
  /\ indexes = << >>
  /\ waiting = 0
  /\ runningQueryUsed = 0
  /\ m = NoThread

\* what is outside the appHerder when it is constructed
Idle ==
  /\ pc = [t \in Writers |-> "idle"]
  /\ wokenBy = [t \in Writers |-> "none"]
  /\ probe = [c \in Collections |-> 0]
  /\ running = [q \in Queries |-> NoQuery]
  /\ base = [q \in Queries |-> 0]
  /\ ret = "none"
  /\ delivered = "none"

Init ==
  /\ \E cfg \in Configs : newAppHerder(cfg)
  /\ Idle

\* ------------------------------------------------------------------------
\* Condition variable
\* ------------------------------------------------------------------------

\* variant: Signal() in place of Broadcast(), one suspended writer becomes runnable
Signal(who) ==
  LET first == IF \E t \in Writers : pc[t] = "wait"
                 THEN CHOOSE t \in Writers :
                        pc[t] = "wait" /\ \A u \in Writers : pc[u] = "wait" => t <= u
                 ELSE NoThread
  IN /\ pc' = [t \in Writers |-> IF t = first THEN "woken" ELSE pc[t]]
     /\ wokenBy' = [t \in Writers |-> IF t = first THEN who ELSE wokenBy[t]]

\* a.waitCond.Broadcast(): every writer suspended in Wait becomes runnable
Broadcast(who) ==
  /\ pc' = [t \in Writers |-> IF pc[t] = "wait" THEN "woken" ELSE pc[t]]
  /\ wokenBy' = [t \in Writers |-> IF pc[t] = "wait" THEN who ELSE wokenBy[t]]

\* ------------------------------------------------------------------------
\* Indexing callbacks
\* ------------------------------------------------------------------------

\* variant: the entry is recorded only when the quota test lets the writer on
LockTracksIfAdmitted(t, c) ==
  /\ pc[t] = "idle"
  /\ m = NoThread
  /\ m' = t
  /\ indexes' = IF overMemQuotaForIndexingLOCKED THEN indexes
                ELSE [x \in (DOMAIN indexes) \cup {c} |->
                        IF x = c THEN SizeFuncOf(c) ELSE indexes[x]]
  /\ pc' = [pc EXCEPT ![t] = "check"]
  /\ UNCHANGED <<quotas, waiting, runningQueryUsed, wokenBy, probe, running,
                 base, ret>>

\* a writer calls onBatchExecuteStart(c, s): a.m.Lock(); a.indexes[c] = s
BatchExecuteStartLock(t, c) ==
  /\ pc[t] = "idle"
  /\ m = NoThread
  /\ m' = t
  /\ indexes' = [x \in (DOMAIN indexes) \cup {c} |->
                   IF x = c THEN SizeFuncOf(c) ELSE indexes[x]]
  /\ pc' = [pc EXCEPT ![t] = "check"]
  /\ UNCHANGED <<quotas, waiting, runningQueryUsed, wokenBy, probe, running,
                 base, ret>>

\* variant: the wait keeps the mutex locked while the writer is suspended
WaitKeepsMutex(t) ==
  /\ pc[t] = "check"
  /\ m = t
  /\ overMemQuotaForIndexingLOCKED
  /\ waiting' = waiting + 1
  /\ pc' = [pc EXCEPT ![t] = "wait"]
  /\ UNCHANGED <<quotas, m, indexes, runningQueryUsed, wokenBy, probe, running,
                 base, ret>>

\* variant: the mutex is released in one step and the writer joins the
\* condition's wait list in a later one
WaitUnlocksFirst(t) ==
  /\ pc[t] = "check"
  /\ \/ /\ m = t
        /\ overMemQuotaForIndexingLOCKED
        /\ waiting' = waiting + 1
        /\ m' = NoThread
        /\ UNCHANGED pc
     \/ /\ m # t
        /\ pc' = [pc EXCEPT ![t] = "wait"]
        /\ UNCHANGED <<m, waiting>>
  /\ UNCHANGED <<quotas, indexes, runningQueryUsed, wokenBy, probe, running,
                 base, ret>>

\* loop test true: a.waiting++; a.waitCond.Wait() releases the mutex and suspends
BatchExecuteStartWait(t) ==
  /\ pc[t] = "check"
  /\ m = t
  /\ overMemQuotaForIndexingLOCKED
  /\ waiting' = waiting + 1
  /\ m' = NoThread
  /\ pc' = [pc EXCEPT ![t] = "wait"]
  /\ UNCHANGED <<quotas, indexes, runningQueryUsed, wokenBy, probe, running,
                 base, ret>>

\* variant: the count is not decremented when Wait() returns
ResumeKeepsCount(t) ==
  /\ pc[t] = "woken"
  /\ m = NoThread
  /\ m' = t
  /\ pc' = [pc EXCEPT ![t] = "check"]
  /\ wokenBy' = [wokenBy EXCEPT ![t] = "none"]
  /\ UNCHANGED <<quotas, waiting, indexes, runningQueryUsed, probe, running,
                 base, ret>>

\* Wait() returns with the mutex held again; a.waiting--; back to the loop test
BatchExecuteStartResume(t) ==
  /\ pc[t] = "woken"
  /\ m = NoThread
  /\ m' = t
  /\ waiting' = waiting - 1
  /\ pc' = [pc EXCEPT ![t] = "check"]
  /\ wokenBy' = [wokenBy EXCEPT ![t] = "none"]
  /\ UNCHANGED <<quotas, indexes, runningQueryUsed, probe, running, base, ret>>

\* variant: the return path leaves the mutex locked
ReturnNoUnlock(t) ==
  /\ pc[t] = "check"
  /\ m = t
  /\ ~overMemQuotaForIndexingLOCKED
  /\ pc' = [pc EXCEPT ![t] = "idle"]
  /\ UNCHANGED <<quotas, m, waiting, indexes, runningQueryUsed, wokenBy, probe,
                 running, base, ret>>

\* loop test false: a.m.Unlock() and return
BatchExecuteStartReturn(t) ==
  /\ pc[t] = "check"
  /\ m = t
  /\ ~overMemQuotaForIndexingLOCKED
  /\ m' = NoThread
  /\ pc' = [pc EXCEPT ![t] = "idle"]
  /\ UNCHANGED <<quotas, waiting, indexes, runningQueryUsed, wokenBy, probe,
                 running, base, ret>>

\* variant: the close drops every tracked entry, not only c
CloseDropsAll(c) ==
  /\ m = NoThread
  /\ indexes' = << >>
  /\ UNCHANGED <<quotas, m, waiting, runningQueryUsed, pc, wokenBy, probe,
                 running, base, ret>>

\* variant: the close also broadcasts on the condition variable
CloseBroadcasts(c) ==
  /\ m = NoThread
  /\ indexes' = [x \in (DOMAIN indexes) \ {c} |-> indexes[x]]
  /\ Broadcast("Close")
  /\ UNCHANGED <<quotas, m, waiting, runningQueryUsed, probe, running, base, ret>>

onClose(c) ==
  /\ m = NoThread
  /\ indexes' = [x \in (DOMAIN indexes) \ {c} |-> indexes[x]]
  /\ UNCHANGED <<quotas, m, waiting, runningQueryUsed, pc, wokenBy, probe,
                 running, base, ret>>

\* variant: the progress callback also clears the waiting count
ProgressClearsWaiting ==
  /\ m = NoThread
  /\ Broadcast("PersisterProgress")
  /\ waiting' = 0
  /\ UNCHANGED <<quotas, m, indexes, runningQueryUsed, probe, running, base, ret>>

onPersisterProgress ==
  /\ m = NoThread
  /\ Broadcast("PersisterProgress")
  /\ UNCHANGED <<quotas, m, waiting, indexes, runningQueryUsed, probe, running,
                 base, ret>>

\* ------------------------------------------------------------------------
\* Engine event adapters (t is the goroutine the engine calls back on)
\* ------------------------------------------------------------------------

\* variant: the moss adapter without the LowerLevelUpdate test
MossEventUngated(t, kind, c) ==
  CASE kind = "EventKindClose" -> onClose(c)
    [] kind = "EventKindBatchExecuteStart" -> BatchExecuteStartLock(t, c)
    [] kind = "EventKindPersisterProgress" -> onPersisterProgress
    [] OTHER -> UNCHANGED vars

onMossEvent(t, kind, c) ==
  IF LowerLevelUpdate(c) = "nil" THEN UNCHANGED vars
  ELSE CASE kind = "EventKindClose" -> onClose(c)
         [] kind = "EventKindBatchExecuteStart" -> BatchExecuteStartLock(t, c)
         [] kind = "EventKindPersisterProgress" -> onPersisterProgress
         [] OTHER -> UNCHANGED vars

onScorchEvent(t, kind, c) ==
  CASE kind = "EventKindClose" -> onClose(c)
    [] kind = "EventKindBatchIntroductionStart" -> BatchExecuteStartLock(t, c)
    [] kind = "EventKindPersisterProgress" -> onPersisterProgress
    [] OTHER -> UNCHANGED vars

\* ------------------------------------------------------------------------
\* Query interface
\* ------------------------------------------------------------------------

\* the error StartQuery(size) returns in the current state ("nil" admits)
StartQueryErr(size) ==
  LET memUsed == Add(runningQueryUsed, size)
  IN IF memUsed > queryQuota THEN "query quota"
     ELSE IF Add(memUsed, indexingMemoryLOCKED) > appQuota THEN "app quota"
     ELSE "nil"

\* variant: the addition is recorded before the application quota is checked
StartQueryUsedEarly(size) ==
  IF StartQueryErr(size) = "query quota" THEN runningQueryUsed
  ELSE Add(runningQueryUsed, size)

\* the value StartQuery(size) leaves in a.runningQueryUsed
StartQueryUsed(size) ==
  IF StartQueryErr(size) = "nil" THEN Add(runningQueryUsed, size)
  ELSE runningQueryUsed

\* base of the other admitted callers after runningQueryUsed moved by +d
Shift(q, d) ==
  [x \in Queries |-> IF x # q /\ running[x] # NoQuery THEN Add(base[x], d) ELSE base[x]]

StartQuery(q, size) ==
  /\ m = NoThread
  /\ running[q] = NoQuery
  /\ runningQueryUsed' = StartQueryUsed(size)
  /\ ret' = StartQueryErr(size)
  /\ IF StartQueryErr(size) = "nil"
       THEN /\ running' = [running EXCEPT ![q] = size]
            /\ base' = [Shift(q, size) EXCEPT ![q] = runningQueryUsed]
       ELSE UNCHANGED <<running, base>>
  /\ UNCHANGED <<quotas, m, waiting, indexes, pc, wokenBy, probe>>

\* variant: the subtraction stops at zero instead of wrapping
EndQueryUsedClamped(size) ==
  IF size > runningQueryUsed THEN 0 ELSE runningQueryUsed - size

\* the value EndQuery(size) leaves in a.runningQueryUsed
EndQueryUsed(size) == Sub(runningQueryUsed, size)

\* variant: EndQuery without the Broadcast
EndQuerySilent(q) ==
  /\ m = NoThread
  /\ running[q] # NoQuery
  /\ runningQueryUsed' = EndQueryUsed(running[q])
  /\ running' = [running EXCEPT ![q] = NoQuery]
  /\ base' = [Shift(q, Mod - running[q]) EXCEPT ![q] = 0]
  /\ UNCHANGED <<quotas, m, waiting, indexes, pc, wokenBy, probe, ret>>

\* the caller of an admitted query ends it with the size it was admitted with
EndQuery(q) ==
  /\ m = NoThread
  /\ running[q] # NoQuery
  /\ runningQueryUsed' = EndQueryUsed(running[q])
  /\ Broadcast("EndQuery")
  /\ running' = [running EXCEPT ![q] = NoQuery]
  /\ base' = [Shift(q, Mod - running[q]) EXCEPT ![q] = 0]
  /\ UNCHANGED <<quotas, m, waiting, indexes, probe, ret>>

\* ------------------------------------------------------------------------
\* Environment: an engine's dirty memory changes (batches grow it, the
\* persister shrinks it)
\* ------------------------------------------------------------------------

ProbeChange(c, v) ==
  /\ probe[c] # v
  /\ probe' = [probe EXCEPT ![c] = v]
  /\ UNCHANGED <<quotas, m, waiting, indexes, runningQueryUsed, pc, wokenBy,
                 running, base, ret>>

\* the steps that are not engine events: a writer going on inside
\* onBatchExecuteStart, the query interface, and the environment
Others ==
  \/ \E t \in Writers : BatchExecuteStartWait(t) /\ UNCHANGED delivered
  \/ \E t \in Writers : BatchExecuteStartResume(t) /\ UNCHANGED delivered
  \/ \E t \in Writers : BatchExecuteStartReturn(t) /\ UNCHANGED delivered
  \/ \E q \in Queries, size \in QuerySizes :
        StartQuery(q, size) /\ UNCHANGED delivered
  \/ \E q \in Queries : EndQuery(q) /\ UNCHANGED delivered
  \/ \E c \in Handles, v \in 0 .. MaxProbe :
        ProbeChange(c, v) /\ UNCHANGED delivered

Next ==
  \/ \E t \in Writers, kind \in MossKinds, c \in MossCollections :
        onMossEvent(t, kind, c) /\ UNCHANGED delivered
  \/ \E t \in Writers, kind \in ScorchKinds, c \in ScorchCollections :
        onScorchEvent(t, kind, c) /\ UNCHANGED delivered
  \/ Others

Spec == Init /\ [][Next]_allvars

\* Scheduling: a writer that holds the mutex runs on to its Wait or its return,
\* and a writer made runnable by a broadcast gets the mutex in the end (the Go
\* mutex hands over to a starving waiter), although others take it in between.
Fairness ==
  \A t \in Writers :
    /\ WF_vars(BatchExecuteStartWait(t) \/ BatchExecuteStartReturn(t))
    /\ SF_vars(BatchExecuteStartResume(t))

FairSpec == Init /\ [][Next]_allvars /\ Fairness

\* The same program with the history variable `delivered` kept: whether the
\* adapter had a case for the latest event ("dispatched") or none ("ignored").
MossIgnores(kind, c) ==
  \/ LowerLevelUpdate(c) = "nil"
  \/ kind \notin {"EventKindClose", "EventKindBatchExecuteStart",
                  "EventKindPersisterProgress"}
ScorchIgnores(kind) ==
  kind \notin {"EventKindClose", "EventKindBatchIntroductionStart",
              "EventKindPersisterProgress"}

EventNext ==
  \/ \E t \in Writers, kind \in MossKinds, c \in MossCollections :
        /\ onMossEvent(t, kind, c)
        /\ delivered' = IF MossIgnores(kind, c) THEN "ignored" ELSE "dispatched"
  \/ \E t \in Writers, kind \in ScorchKinds, c \in ScorchCollections :
        /\ onScorchEvent(t, kind, c)
        /\ delivered' = IF ScorchIgnores(kind) THEN "ignored" ELSE "dispatched"
  \/ Others

EventSpec == Init /\ [][EventNext]_allvars

\* The constructor over a range of arguments: every total of the word and
\* ratios from 0 to 2, with one writer, one handle of each engine and one
\* query caller going through every operation afterwards.
QuotaRatios ==
  {0, RatioDen \div 2, RatioDen - 1, RatioDen, RatioDen + 1, 2 * RatioDen}
QuotaConfigs ==
  [memQuota : Word, appRatio : QuotaRatios, indexRatio : QuotaRatios,
   queryRatio : QuotaRatios]

QuotaInit ==
  /\ \E cfg \in QuotaConfigs : newAppHerder(cfg)
  /\ Idle

QuotaNext ==
  \/ \E kind \in MossKinds : onMossEvent(1, kind, 1) /\ UNCHANGED delivered
  \/ \E kind \in ScorchKinds : onScorchEvent(1, kind, 2) /\ UNCHANGED delivered
  \/ BatchExecuteStartWait(1) /\ UNCHANGED delivered
  \/ BatchExecuteStartResume(1) /\ UNCHANGED delivered
  \/ BatchExecuteStartReturn(1) /\ UNCHANGED delivered
  \/ StartQuery(1, 3) /\ UNCHANGED delivered
  \/ EndQuery(1) /\ UNCHANGED delivered
  \/ \E v \in {0, MaxProbe} : ProbeChange(1, v) /\ UNCHANGED delivered

QuotaSpec == QuotaInit /\ [][QuotaNext]_allvars

\* ------------------------------------------------------------------------
\* Quantities the properties speak about (true, unbounded arithmetic)
\* ------------------------------------------------------------------------

RECURSIVE SumOver(_, _)
SumOver(S, f) ==
  IF S = {} THEN 0
  ELSE LET x == CHOOSE y \in S : TRUE IN f[x] + SumOver(S \ {x}, f)

\* sum of what the probes of the tracked handles return
ProbeSum == SumOver(DOMAIN indexes, probe)

\* the queries admitted and not yet ended, and the sum of their sizes
InFlight == {q \in Queries : running[q] # NoQuery}
InFlightSum == SumOver(InFlight, running)

WithinQuota ==
  /\ ProbeSum <= indexQuota
  /\ ProbeSum + runningQueryUsed <= appQuota

\* a step in which writer t returns from onBatchExecuteStart
Returns(t) == pc[t] = "check" /\ pc'[t] = "idle"

\* a step in which query caller q ends its query
Ends(q) == running[q] # NoQuery /\ running'[q] = NoQuery

\* ------------------------------------------------------------------------
\* Properties
\* ------------------------------------------------------------------------

\* C1: whenever a writer returns from onBatchExecuteStart, the sum of the
\* tracked probes is at most indexQuota and that sum plus runningQueryUsed is
\* at most appQuota (true sums, in the state the return is taken from).
C1_ReturnWithinQuota ==
  [][\A t \in Writers : Returns(t) => WithinQuota]_vars

\* C2: in every state (with the mutex free for the call) and for every size,
\* StartQuery(size) returns nil exactly
\* when runningQueryUsed+size <= queryQuota and runningQueryUsed+size+ProbeSum
\* <= appQuota (true sums), and an admission adds exactly size to
\* runningQueryUsed.
C2_AdmitIff ==
  /\ [](\A size \in QuerySizes :
          m = NoThread =>
          (StartQueryErr(size) = "nil") <=>
            (/\ runningQueryUsed + size <= queryQuota
             /\ runningQueryUsed + size + ProbeSum <= appQuota))
  /\ [][\A q \in Queries, size \in QuerySizes :
          (StartQuery(q, size) /\ ret' = "nil") =>
            runningQueryUsed' = runningQueryUsed + size]_vars

\* C3: a StartQuery call that returns an error changes neither
\* runningQueryUsed, the tracked indexes, the waiting count nor any writer's
\* position (nobody is woken), nor the admitted queries.
C3_RejectChangesNothing ==
  [][\A q \in Queries, size \in QuerySizes :
       (StartQuery(q, size) /\ ret' # "nil") =>
         UNCHANGED <<runningQueryUsed, indexes, waiting, pc, wokenBy, m, running,
                     quotas>>]_vars

\* C3 case: the latest StartQuery call was rejected
C3_Witness == ret \in {"query quota", "app quota"}

\* C4: in every state (with the mutex free for the call) and for every size
\* StartQuery(size) rejects, the error
\* names the query quota exactly when runningQueryUsed+size > queryQuota, and
\* the application quota exactly when runningQueryUsed+size <= queryQuota but
\* runningQueryUsed+size+ProbeSum > appQuota (true sums).
C4_RejectReason ==
  \A size \in QuerySizes :
    (m = NoThread /\ StartQueryErr(size) # "nil") =>
      /\ (StartQueryErr(size) = "query quota") <=>
           (runningQueryUsed + size > queryQuota)
      /\ (StartQueryErr(size) = "app quota") <=>
           (/\ runningQueryUsed + size <= queryQuota
            /\ runningQueryUsed + size + ProbeSum > appQuota)

\* C5: when the caller of an admitted StartQuery(size) calls EndQuery(size),
\* runningQueryUsed becomes the value it would have had without that query:
\* its value before the admission, moved by what the other callers' admitted
\* and ended queries added and removed in between.
C5_EndRestores ==
  [][\A q \in Queries : Ends(q) => runningQueryUsed' = base[q]]_vars

\* C5 case: an EndQuery has run (it woke a writer) while another caller's
\* query is still in flight, and runningQueryUsed is that query's size
C5_Witness ==
  /\ \E t \in Writers : wokenBy[t] = "EndQuery"
  /\ \E q \in Queries : InFlight = {q} /\ runningQueryUsed = running[q]

\* C6: with every admitted StartQuery(size) ended by one EndQuery(size),
\* runningQueryUsed is the sum of the sizes of the queries in flight.
C6_UsedIsInFlightSum == runningQueryUsed = InFlightSum

\* a writer inside Wait: suspended, or made runnable and not yet holding the mutex
Suspended(t) == pc[t] = "wait"
InWait(t) == pc[t] \in {"wait", "woken"}

\* the path of a woken writer: it takes the mutex, evaluates the test, and
\* returns if the test is false or suspends again if it is true
RecheckOnWake ==
  \A t \in Writers :
    /\ pc[t] = "woken" => (pc'[t] = "woken" \/ (pc'[t] = "check" /\ m' = t))
    /\ pc[t] = "check" =>
         \/ pc'[t] = "check"
         \/ pc'[t] = "idle" /\ ~overMemQuotaForIndexingLOCKED
         \/ pc'[t] = "wait" /\ overMemQuotaForIndexingLOCKED

\* C7: onPersisterProgress makes every writer suspended in Wait runnable, and
\* each woken writer re-evaluates the quota test under the mutex: it returns
\* if the test is false and suspends again if it is true.
C7_ProgressWakesAll ==
  [][/\ onPersisterProgress => \A t \in Writers : Suspended(t) => pc'[t] = "woken"
     /\ RecheckOnWake]_vars

\* C7 case: two writers were suspended and one onPersisterProgress woke both
C7_Witness ==
  \E t, u \in Writers :
    /\ t # u
    /\ pc[t] = "woken" /\ wokenBy[t] = "PersisterProgress"
    /\ pc[u] = "woken" /\ wokenBy[u] = "PersisterProgress"

\* C8: EndQuery makes every suspended writer runnable, and a writer woken by
\* an EndQuery that left the quota test false returns, provided the test
\* stays false, with no onPersisterProgress needed.
C8_EndQueryWakes ==
  /\ [][\A q \in Queries :
          EndQuery(q) => \A t \in Writers : Suspended(t) => pc'[t] = "woken"]_vars
  /\ \A t \in Writers :
       (pc[t] = "woken" /\ wokenBy[t] = "EndQuery" /\ ~overMemQuotaForIndexingLOCKED)
         ~> (pc[t] = "idle" \/ overMemQuotaForIndexingLOCKED)

\* C8 case: a writer woken by an EndQuery; indexing alone is within indexQuota,
\* the test is false now and was true with the ended query (size >= 1) counted
C8_Witness ==
  \E t \in Writers :
    /\ pc[t] = "woken" /\ wokenBy[t] = "EndQuery"
    /\ ~overMemQuotaForIndexingLOCKED
    /\ ProbeSum <= indexQuota
    /\ ProbeSum + runningQueryUsed + 1 > appQuota

\* C9: a writer inside onBatchExecuteStart that is not suspended (it holds the
\* mutex, or a broadcast has woken it) returns, provided the quota test is
\* false and stays false; there is no other way out of the call.
C9_RegisterReturns ==
  \A t \in Writers :
    (pc[t] \in {"check", "woken"} /\ ~overMemQuotaForIndexingLOCKED)
      ~> (pc[t] = "idle" \/ overMemQuotaForIndexingLOCKED)

\* C9 case: writers woken by a broadcast while the test is false
C9_Witness ==
  /\ \A t \in Writers : pc[t] = "woken"
  /\ ~overMemQuotaForIndexingLOCKED

\* the four operations that take the mutex and never wait
NonBlockingStep ==
  \/ \E c \in Handles : onClose(c)
  \/ onPersisterProgress
  \/ \E q \in Queries, size \in QuerySizes : StartQuery(q, size)
  \/ \E q \in Queries : EndQuery(q)

\* with no writer between Lock and Wait/Unlock, each of the four can run
NonBlockingEnabled ==
  /\ ENABLED onPersisterProgress
  /\ \A c \in Handles : ENABLED onClose(c)
  /\ \A q \in Queries :
       IF running[q] = NoQuery
         THEN \A size \in QuerySizes : ENABLED StartQuery(q, size)
         ELSE ENABLED EndQuery(q)

\* C10: a writer inside Wait does not hold the mutex; when every writer in
\* onBatchExecuteStart is inside Wait the mutex is free and onClose,
\* onPersisterProgress, StartQuery and EndQuery can each run, in one step that
\* suspends nobody and leaves the mutex free; a writer enters Wait only from
\* the loop test, and only when the test is true.
C10_OnlyRegisterSuspends ==
  /\ [](\A t \in Writers : InWait(t) => m # t)
  /\ []((\A t \in Writers : pc[t] = "idle" \/ InWait(t)) =>
          (m = NoThread /\ NonBlockingEnabled))
  /\ [][NonBlockingStep =>
          (m' = NoThread /\ \A t \in Writers : Suspended(t)' => Suspended(t))]_vars
  /\ [][\A t \in Writers :
          (Suspended(t)' /\ ~Suspended(t)) =>
            (pc[t] = "check" /\ overMemQuotaForIndexingLOCKED)]_vars

\* C10 case: every writer is suspended in Wait while a query is in flight
C10_Witness ==
  /\ \A t \in Writers : Suspended(t)
  /\ InFlight # {}

\* C11: onClose(c) removes exactly c: afterwards c is not tracked and does not
\* count in the usage sum, every other entry, runningQueryUsed and all the
\* rest of the state are unchanged, and when c was not tracked the whole state
\* is unchanged.
C11_CloseRemovesExactlyThat ==
  [][\A c \in Handles :
       onClose(c) =>
         /\ c \notin DOMAIN indexes'
         /\ DOMAIN indexes' = (DOMAIN indexes) \ {c}
         /\ \A x \in DOMAIN indexes' : indexes'[x] = indexes[x]
         /\ ProbeSum' = ProbeSum - (IF c \in DOMAIN indexes THEN probe[c] ELSE 0)
         /\ UNCHANGED <<runningQueryUsed, quotas, m, waiting, pc, wokenBy, probe,
                        running, ret>>
         /\ c \notin DOMAIN indexes => UNCHANGED vars]_vars

\* C11 case: a writer that inserted its handle is still suspended although
\* no entry is tracked any more: its entry has been closed
C11_Witness ==
  /\ \E t \in Writers : Suspended(t)
  /\ DOMAIN indexes = {}

\* C12: onClose wakes nobody: every writer suspended before the step is
\* suspended after it, also when the removal makes the quota test false.
C12_CloseWakesNobody ==
  [][\A c \in Handles :
       onClose(c) => \A t \in Writers : Suspended(t) => Suspended(t)']_vars

\* C12 case: every entry has been closed, the quota test is false, and the
\* writers that registered them are still suspended
C12_Witness ==
  /\ \A t \in Writers : Suspended(t)
  /\ DOMAIN indexes = {}
  /\ ~overMemQuotaForIndexingLOCKED

\* C13: a writer suspended in onBatchExecuteStart returns once onClose calls
\* have removed tracked entries and so made the quota test false, with no
\* broadcast needed (unless the test turns true again).
C13_CloseUnblocks ==
  \A t \in Writers :
    (Suspended(t) /\ DOMAIN indexes = {} /\ ~overMemQuotaForIndexingLOCKED)
      ~> (pc[t] = "idle" \/ overMemQuotaForIndexingLOCKED)

\* C14: onPersisterProgress called while no writer is suspended changes
\* nothing: the tracked map, runningQueryUsed, the waiting count and all the
\* rest of the state are as before, so calls repeated any number of times
\* leave the state of none, and a later onBatchExecuteStart finds no trace.
C14_ProgressNoWaiters ==
  [][(onPersisterProgress /\ \A t \in Writers : ~Suspended(t)) =>
       UNCHANGED vars]_vars

\* C14 case: an onPersisterProgress has woken the waiters and the mutex is
\* free for a repeated call that finds nobody suspended
C14_Witness ==
  /\ m = NoThread
  /\ \A t \in Writers : ~Suspended(t)
  /\ \E t \in Writers : pc[t] = "woken" /\ wokenBy[t] = "PersisterProgress"

Tracked(c) == c \in DOMAIN indexes

\* C16: a handle is tracked exactly from the start of an onBatchExecuteStart
\* for it (the entry is there before the writer waits) until the next onClose
\* for it: no entry is tracked at first, the step that starts an
\* onBatchExecuteStart(c) leaves c tracked, onClose(c) leaves it untracked, and
\* no other step adds or removes an entry.
C16_TrackedIffRegistered ==
  /\ [](\A t \in Writers : pc[t] = "check" => m = t)
  /\ [][\A c \in Handles :
          /\ (\E t \in Writers : BatchExecuteStartLock(t, c)) => Tracked(c)'
          /\ onClose(c) => ~Tracked(c)'
          /\ (Tracked(c)' /\ ~Tracked(c)) => \E t \in Writers : BatchExecuteStartLock(t, c)
          /\ (~Tracked(c)' /\ Tracked(c)) => onClose(c)]_vars

\* C16 case: a writer is blocked over quota, one handle is tracked and the
\* other is not
C16_Witness ==
  /\ \E t \in Writers : Suspended(t)
  /\ overMemQuotaForIndexingLOCKED
  /\ \E c, d \in Handles : Tracked(c) /\ ~Tracked(d)

Broadcasts == onPersisterProgress \/ \E q \in Queries : EndQuery(q)

\* C17: no wake-up is lost. A writer that found the test true is on the wait
\* list before the mutex is free again (no writer sits between the test and the
\* wait while another operation can run), and every onPersisterProgress or
\* EndQuery broadcast wakes every suspended writer: after a broadcast no writer
\* is still suspended.
C17_NoLostWakeup ==
  /\ [](m = NoThread => \A t \in Writers : pc[t] # "check")
  /\ [][Broadcasts =>
          \A t \in Writers : /\ Suspended(t) => pc'[t] = "woken"
                             /\ ~Suspended(t)']_vars

\* C17 case: both writers were suspended, the test has become false, and a
\* broadcast has woken both
C17_Witness ==
  /\ \A t \in Writers : pc[t] = "woken"
  /\ \E t \in Writers : wokenBy[t] = "EndQuery"
  /\ ~overMemQuotaForIndexingLOCKED

\* C19 (as claimed): with every admitted StartQuery(size) ended by one
\* EndQuery(size) and the arithmetic done modulo 2^WordBits, runningQueryUsed
\* never exceeds queryQuota, whatever the sizes.
C19_UsedWithinQueryQuota == runningQueryUsed <= queryQuota

\* C20: seen with the mutex free, waiting is the number of writers inside
\* Wait(), suspended or already woken and not yet holding the mutex again; it
\* is 0 when no onBatchExecuteStart is in progress, and it is never negative.
C20_WaitingCount ==
  /\ m = NoThread => waiting = Cardinality({t \in Writers : InWait(t)})
  /\ (\A t \in Writers : pc[t] = "idle") => waiting = 0
  /\ waiting >= 0

\* C20 case: the mutex is free, one writer is still suspended and the other has
\* been woken and has not resumed; both are counted
C20_Witness ==
  /\ m = NoThread
  /\ waiting = 2
  /\ \E t, u \in Writers : pc[t] = "wait" /\ pc[u] = "woken"

\* what the claim says each listed kind does
MossMapsTo(t, kind, c) ==
  CASE kind = "EventKindClose" -> onClose(c)
    [] kind = "EventKindBatchExecuteStart" -> BatchExecuteStartLock(t, c)
    [] kind = "EventKindPersisterProgress" -> onPersisterProgress
ScorchMapsTo(t, kind, c) ==
  CASE kind = "EventKindClose" -> onClose(c)
    [] kind = "EventKindBatchIntroductionStart" -> BatchExecuteStartLock(t, c)
    [] kind = "EventKindPersisterProgress" -> onPersisterProgress

\* C18: in every state, an event of any kind from a moss collection whose
\* LowerLevelUpdate is nil, and an event of a kind the switch does not list
\* from either engine, can be delivered and cannot change the controller state
\* (nobody is woken or blocked); an event of a listed kind does exactly what
\* its operation does: EventKindClose is onClose, EventKindBatchExecuteStart
\* and EventKindBatchIntroductionStart start onBatchExecuteStart, and
\* EventKindPersisterProgress is onPersisterProgress.
C18_AdapterIgnores ==
  /\ \A t \in Writers, kind \in MossKinds, c \in MossCollections :
       IF MossIgnores(kind, c)
         THEN /\ ENABLED onMossEvent(t, kind, c)
              /\ ~ENABLED (onMossEvent(t, kind, c) /\ ~UNCHANGED vars)
         ELSE /\ ~ENABLED (onMossEvent(t, kind, c) /\ ~MossMapsTo(t, kind, c))
              /\ ~ENABLED (MossMapsTo(t, kind, c) /\ ~onMossEvent(t, kind, c))
  /\ \A t \in Writers, kind \in ScorchKinds, c \in ScorchCollections :
       IF ScorchIgnores(kind)
         THEN /\ ENABLED onScorchEvent(t, kind, c)
              /\ ~ENABLED (onScorchEvent(t, kind, c) /\ ~UNCHANGED vars)
         ELSE /\ ~ENABLED (onScorchEvent(t, kind, c) /\ ~ScorchMapsTo(t, kind, c))
              /\ ~ENABLED (ScorchMapsTo(t, kind, c) /\ ~onScorchEvent(t, kind, c))

\* C18 case: the latest engine event was one the adapter ignores; a writer is
\* suspended with the mutex free and the test false, and the flagless
\* collection is not tracked
C18_Witness ==
  /\ delivered = "ignored"
  /\ m = NoThread
  /\ \E t \in Writers : Suspended(t)
  /\ ~overMemQuotaForIndexingLOCKED
  /\ ~Tracked(Plain)

\* the exact product x * (k / RatioDen), truncated to an integer
TruncProduct(x, k) == (x * k) \div RatioDen

\* C15 (as claimed): for every total and all ratios the constructor leaves
\* appQuota = trunc(total * appRatio), indexQuota = trunc(appQuota * indexRatio)
\* and queryQuota = trunc(appQuota * queryRatio), the two child quotas taken of
\* the truncated appQuota, and no operation changes a quota afterwards.
C15_QuotasTruncProducts ==
  /\ [](/\ memQuota = args.memQuota
        /\ appQuota = TruncProduct(memQuota, args.appRatio)
        /\ indexQuota = TruncProduct(appQuota, args.indexRatio)
        /\ queryQuota = TruncProduct(appQuota, args.queryRatio))
  /\ [][UNCHANGED quotas]_vars

====
